---- MODULE Spec2Model ----
(***************************************************************************)
(* The implicit-iso-surface geometry "Impi" of module-impi: the            *)
(* orchestrator Impi (ospray/geometry/Impi.cpp), the octant voxel source   *)
(* TestOctant it owns, and the ISPC kernel it hands the active-voxel list  *)
(* to.  Scalars (iso-values, corner values, coordinates) are floats in the *)
(* program; here they are integers counted in tenths, so 0.7f is 7.        *)
(***************************************************************************)
EXTENDS Integers, Sequences, FiniteSets, TLC

\* Largest number of octants an input data set holds.
MaxOctants == 2

\* isoValue = 0.7f in initVoxelSourceAndIsoValue (the "#elif 1" branch).
InitIso == 7

\* The default of getParam1f("isoValue", 0.7f) in commit.
DefaultIso == 7

\* A parameter is <<>> while the application has not set it and <<v>> once it
\* is set to v; the same shape holds what the kernel has resolved so far.
Absent == <<>>
Some(v) == <<v>>
ValueOf(opt) == opt[1]

\* The null voxelSource pointer.
Null == 0

\* Iso-values the application sets, in tenths.
IsoParams == {5, 11}

\* Every value the member isoValue can hold.
IsoValues == IsoParams \cup {InitIso, DefaultIso}

\* One entry of the three parallel input arrays: a width, a lower corner
\* and 8 corner values.
OctantInputs ==
  { [width |-> 2, point |-> <<0, 0, 0>>, values |-> <<0, 0, 0, 0, 10, 10, 10, 10>>],
    [width |-> 1, point |-> <<2, 0, 0>>, values |-> <<2, 3, 4, 5, 2, 3, 4, 5>>],
    [width |-> 1, point |-> <<0, 2, 0>>, values |-> <<9, 8, 7, 9, 8, 7, 9, 8>>] }

\* The input data sets: every sequence of at most MaxOctants entries.
Datasets == UNION { [1..n -> OctantInputs] : n \in 0..MaxOctants }

RECURSIVE Flatten(_)
Flatten(seqs) ==
  IF seqs = <<>> THEN <<>> ELSE Head(seqs) \o Flatten(Tail(seqs))

\* The arrays the application passes for a data set: the width array starts
\* with the octant count, the value array is flattened, 8 per octant.
WidthArrayOf(ds) == <<Len(ds)>> \o [i \in 1..Len(ds) |-> ds[i].width]
PointArrayOf(ds) == [i \in 1..Len(ds) |-> ds[i].point]
ValueArrayOf(ds) == Flatten([i \in 1..Len(ds) |-> ds[i].values])

OctantParams == {"octantWidthArray", "octantPointArray", "octantValueArray"}

VARIABLES
  params,           \* the parameters the application has set on the geometry
  voxelSource,      \* Impi::voxelSource: Null or the instance it points to
  instances,        \* number of TestOctant objects constructed so far
  initDataCalls,    \* number of TestOctant::initData calls so far
  octants,          \* TestOctant::octants of the source
  isoValue,         \* Impi::isoValue
  activeVoxelRefs,  \* Impi::activeVoxelRefs
  kernel,           \* what the ISPC side was handed by Impi_finalize
  kBounds,          \* per reference, the bounds the kernel last resolved
  kVoxel,           \* per reference, the voxel the kernel last resolved
  status,           \* "ok", or how the process ended
  lastOp,           \* the operation that ran last
  sceneBounds       \* the bounds the scene-graph node last reported

vars == <<params, voxelSource, instances, initDataCalls, octants, isoValue,
          activeVoxelRefs, kernel, kBounds, kVoxel, status, lastOp, sceneBounds>>

\* References are flat 0-based indices into octants.
Refs == 0..(MaxOctants - 1)

----------------------------------------------------------------------------
(* vec3f / box3f *)

Vec3Add(p, w) == <<p[1] + w, p[2] + w, p[3] + w>>

Box3(lo, up) == [lower |-> lo, upper |-> up]

----------------------------------------------------------------------------
(* TestOctant, the octant voxel source *)

\* struct Octant { box3f bounds; float width; float vertexValue[2][2][2]; }
Octant(b, w, v) == [bounds |-> b, width |-> w, vertexValue |-> v]

\* initData(octNum, points, widths, values): one Octant per entry, lock-step.
InitData(octNum, octPDatav, octWBuff, octVDataf) ==
  [i \in 1..octNum |->
     Octant(Box3(octPDatav[i], Vec3Add(octPDatav[i], octWBuff[i])),
            octWBuff[i],
            SubSeq(octVDataf, 8 * (i - 1) + 1, 8 * i))]

RECURSIVE MinOf(_)
MinOf(vs) ==
  IF Len(vs) = 1 THEN vs[1]
  ELSE LET m == MinOf(Tail(vs)) IN IF vs[1] < m THEN vs[1] ELSE m

RECURSIVE MaxOf(_)
MaxOf(vs) ==
  IF Len(vs) = 1 THEN vs[1]
  ELSE LET m == MaxOf(Tail(vs)) IN IF vs[1] > m THEN vs[1] ELSE m

\* The iso-range condition with the corners' range taken as open.
IsActiveStrict(oct, iso) ==
  MinOf(oct.vertexValue) < iso /\ iso < MaxOf(oct.vertexValue)

\* The iso-range condition with the test against the smallest corner left out.
IsActiveBelowMax(oct, iso) == iso <= MaxOf(oct.vertexValue)

\* The iso-range condition of one octant.
IsActive(oct, iso) ==
  MinOf(oct.vertexValue) <= iso /\ iso <= MaxOf(oct.vertexValue)

\* One linear pass over octs from (1-based) position i on.
RECURSIVE ScanOctants(_, _, _)
ScanOctants(octs, i, iso) ==
  IF i > Len(octs) THEN <<>>
  ELSE (IF IsActive(octs[i], iso) THEN <<i - 1>> ELSE <<>>)
         \o ScanOctants(octs, i + 1, iso)

\* getActiveVoxels(activeVoxels, isoValue): the new content of activeVoxels.
GetActiveVoxels(octs, iso) == ScanOctants(octs, 1, iso)

\* getVoxelBounds(voxelRef)
GetVoxelBounds(octs, voxelRef) == octs[voxelRef + 1].bounds

\* getVoxel(voxelRef)
GetVoxel(octs, voxelRef) ==
  [bounds |-> octs[voxelRef + 1].bounds, vtx |-> octs[voxelRef + 1].vertexValue]

----------------------------------------------------------------------------
(* Impi, the orchestrator *)

\* getParam1f(name, default)
GetParam1f(name, valIfNotFound) ==
  IF params[name] = Absent THEN valIfNotFound ELSE ValueOf(params[name])

\* getParamData(name)->data, for a parameter that is set.
GetParamData(name) == ValueOf(params[name])

\* The parameters after the application has set the arrays of data set ds,
\* leaving out those in missing.
WithOctantData(ps, ds, missing) ==
  [ps EXCEPT
     !.octantWidthArray =
        IF "octantWidthArray" \in missing THEN Absent ELSE Some(WidthArrayOf(ds)),
     !.octantPointArray =
        IF "octantPointArray" \in missing THEN Absent ELSE Some(PointArrayOf(ds)),
     !.octantValueArray =
        IF "octantValueArray" \in missing THEN Absent ELSE Some(ValueArrayOf(ds))]

\* A new Impi: no parameter is set, no source exists, isoValue is not
\* initialized by the constructor.
Init ==
  /\ params = [p \in OctantParams \cup {"isoValue"} |-> Absent]
  /\ voxelSource = Null
  /\ instances = 0
  /\ initDataCalls = 0
  /\ octants = <<>>
  /\ isoValue \in IsoValues
  /\ activeVoxelRefs = <<>>
  /\ kernel = [built |-> FALSE, voxelRefs |-> <<>>, numVoxels |-> 0, isoValue |-> 0,
               producer |-> Null]
  /\ kBounds = [r \in Refs |-> Absent]
  /\ kVoxel = [r \in Refs |-> Absent]
  /\ status = "ok"
  /\ lastOp = "new"
  /\ sceneBounds = Absent

\* The application sets the "isoValue" parameter (a float child of the
\* geometry node); it takes effect at the next commit.
SetIsoValue ==
  /\ status = "ok"
  /\ \E v \in IsoParams : params' = [params EXCEPT !.isoValue = Some(v)]
  /\ lastOp' = "set"
  /\ UNCHANGED <<voxelSource, instances, initDataCalls, octants, isoValue,
                 activeVoxelRefs, kernel, kBounds, kVoxel, status,
                 sceneBounds>>

\* The data sets the application replaces the arrays with once the geometry
\* has been committed: those of at most one octant.
ReplacementData == { ds \in Datasets : Len(ds) <= 1 }

\* The application sets the octant arrays of the geometry: before the first
\* commit from any data set, possibly leaving one array out; afterwards it
\* may replace them.  The arrays are read by commit.
SetOctantData ==
  /\ status = "ok"
  /\ \E ds \in (IF voxelSource = Null THEN Datasets ELSE ReplacementData),
        missing \in (IF voxelSource = Null
                       THEN {{}} \cup {{p} : p \in OctantParams}
                       ELSE {{}}) :
       params' = WithOctantData(params, ds, missing)
  /\ lastOp' = "set"
  /\ UNCHANGED <<voxelSource, instances, initDataCalls, octants, isoValue,
                 activeVoxelRefs, kernel, kBounds, kVoxel, status,
                 sceneBounds>>

\* What dereferencing a null pointer can end in: the process is killed by
\* the fault, or it goes on with indeterminate values.
NullDerefOutcomes == {"segv", "undefined"}

\* An indeterminate octant table.
IndeterminateOctants ==
  { InitData(Len(ds), PointArrayOf(ds), Tail(WidthArrayOf(ds)), ValueArrayOf(ds)) :
      ds \in Datasets }

\* An indeterminate reference list.
IndeterminateRefs == { [i \in 1..n |-> i - 1] : n \in 0..MaxOctants }

\* A commit that hands initData the width array from its first element on,
\* the count included (the ++octWDataf left out).
CommitInitDataCountAsWidth ==
  LET octWDataf == GetParamData("octantWidthArray")
      octNum    == octWDataf[1]
      octPDatav == GetParamData("octantPointArray")
      octVDataf == GetParamData("octantValueArray")
  IN  InitData(octNum, octPDatav, octWDataf, octVDataf)

\* The !voxelSource branch of commit with every octant parameter set: the
\* three arrays are read and handed to initData; the resulting octants.
CommitInitData ==
  LET octWDataf == GetParamData("octantWidthArray")
      octNum    == octWDataf[1]
      octWBuff  == Tail(octWDataf)
      octPDatav == GetParamData("octantPointArray")
      octVDataf == GetParamData("octantValueArray")
  IN  InitData(octNum, octPDatav, octWBuff, octVDataf)

\* voxelSource = std::make_shared<testCase::TestOctant>() in
\* initVoxelSourceAndIsoValue: the instance just constructed.
MakeTestOctant == instances + 1

\* A commit that builds and initializes the source again although one exists.
NeedsInitAlways == TRUE

\* if (!voxelSource): true on the first commit only.
NeedsInit == voxelSource = Null

\* A commit whose read of the parameter is skipped when it has just built the
\* source, so that the value set by initVoxelSourceAndIsoValue stays.
CommitIsoValueUnlessInit ==
  IF voxelSource = Null THEN InitIso ELSE GetParam1f("isoValue", DefaultIso)

\* isoValue = getParam1f("isoValue", 0.7f), the last statement of commit.
CommitIsoValue == GetParam1f("isoValue", DefaultIso)

\* Impi::commit()
Commit ==
  /\ status = "ok"
  /\ \/ /\ NeedsInit
        /\ \A p \in OctantParams : params[p] # Absent
        /\ voxelSource' = MakeTestOctant
        /\ instances' = instances + 1
        /\ octants' = CommitInitData
        /\ initDataCalls' = initDataCalls + 1
        /\ isoValue' = CommitIsoValue
        /\ status' = "ok"
     \/ \* an array is not set: getParamData returns a null pointer and commit
        \* reads through it, after initVoxelSourceAndIsoValue has run
        /\ NeedsInit
        /\ \E p \in OctantParams : params[p] = Absent
        /\ voxelSource' = MakeTestOctant
        /\ instances' = instances + 1
        /\ \E outcome \in NullDerefOutcomes :
             /\ status' = outcome
             /\ IF outcome = "segv"
                  THEN /\ isoValue' = InitIso
                       /\ UNCHANGED <<initDataCalls, octants>>
                  ELSE /\ isoValue' = CommitIsoValue
                       /\ initDataCalls' = initDataCalls + 1
                       /\ octants' \in IndeterminateOctants
     \/ /\ ~NeedsInit
        /\ isoValue' = CommitIsoValue
        /\ UNCHANGED <<voxelSource, instances, initDataCalls, octants, status>>
  /\ lastOp' = "commit"
  /\ UNCHANGED <<params, activeVoxelRefs, kernel, kBounds, kVoxel,
                 sceneBounds>>

\* ispc::Impi_finalize(ie, model, refs, numRefs, self, isoValue): what the
\* kernel holds afterwards; producer is the source instance behind self that
\* has just enumerated the list.
Impi_finalize(voxelRefs, numVoxels, iso) ==
  [built |-> TRUE, voxelRefs |-> voxelRefs, numVoxels |-> numVoxels, isoValue |-> iso,
   producer |-> voxelSource]

\* A finalize that takes the pointer and size of the list before it is
\* enumerated anew.
HandedRefsBeforeEnumeration == activeVoxelRefs

\* (uint64_t*)&activeVoxelRefs[0], activeVoxelRefs.size(): the list as
\* getActiveVoxels has just left it.
HandedRefs == activeVoxelRefs'

\* Impi::finalize(model)
Finalize ==
  /\ status = "ok"
  /\ \/ /\ voxelSource # Null
        /\ activeVoxelRefs' = GetActiveVoxels(octants, isoValue)
        /\ \/ /\ kernel' = Impi_finalize(HandedRefs, Len(HandedRefs), isoValue)
              /\ status' = "ok"
           \/ \* activeVoxelRefs[0] of an empty vector: a library built with
              \* assertions aborts on the index check
              /\ activeVoxelRefs' = <<>>
              /\ status' = "abort"
              /\ UNCHANGED kernel
     \/ \* voxelSource-> on a null pointer
        /\ voxelSource = Null
        /\ \E outcome \in NullDerefOutcomes :
             /\ status' = outcome
             /\ IF outcome = "segv"
                  THEN UNCHANGED <<activeVoxelRefs, kernel>>
                  ELSE /\ activeVoxelRefs' \in IndeterminateRefs
                       /\ kernel' = Impi_finalize(activeVoxelRefs', Len(activeVoxelRefs'),
                                                  isoValue)
  /\ lastOp' = "finalize"
  /\ UNCHANGED <<params, voxelSource, instances, initDataCalls, octants, isoValue,
                 kBounds, kVoxel,
                 sceneBounds>>

\* The references the kernel may resolve: those of the list it was handed.
KernelRefs == { kernel.voxelRefs[i] : i \in 1..kernel.numVoxels }

\* A callback that resolves the bounds of the first octant whatever the
\* reference.
ExternC_getVoxelBoundsOfFirst(voxelRef) ==
  [kBounds EXCEPT ![voxelRef] = Some(GetVoxelBounds(octants, 0))]

\* externC_getVoxelBounds(bounds, self, voxelRef): the kernel's callback; the
\* result is the new kBounds.
ExternC_getVoxelBounds(voxelRef) ==
  [kBounds EXCEPT ![voxelRef] = Some(GetVoxelBounds(octants, voxelRef))]

\* externC_getVoxel(voxel, self, voxelRef): the kernel's callback; the result
\* is the new kVoxel.
ExternC_getVoxel(voxelRef) ==
  [kVoxel EXCEPT ![voxelRef] = Some(GetVoxel(octants, voxelRef))]

\* The kernel resolves the bounds of a reference of its list; before any
\* commit the callback can only be entered with no source behind self.
ResolveBounds ==
  /\ status = "ok"
  /\ \/ /\ voxelSource # Null
        /\ \E ref \in KernelRefs : kBounds' = ExternC_getVoxelBounds(ref)
        /\ UNCHANGED status
     \/ /\ voxelSource = Null
        /\ status' \in NullDerefOutcomes
        /\ UNCHANGED kBounds
  /\ lastOp' = "getVoxelBounds"
  /\ UNCHANGED <<params, voxelSource, instances, initDataCalls, octants, isoValue,
                 activeVoxelRefs, kernel, kVoxel,
                 sceneBounds>>

\* The kernel resolves the full voxel of a reference of its list; lastOp
\* tells a first resolution of the reference from a repeated one.
ResolveVoxel ==
  /\ status = "ok"
  /\ \/ /\ voxelSource # Null
        /\ \E ref \in KernelRefs :
             /\ kVoxel' = ExternC_getVoxel(ref)
             /\ lastOp' = IF kVoxel[ref] = Absent THEN "getVoxel" ELSE "getVoxel again"
        /\ UNCHANGED status
     \/ /\ voxelSource = Null
        /\ status' \in NullDerefOutcomes
        /\ lastOp' = "getVoxel"
        /\ UNCHANGED kVoxel
  /\ UNCHANGED <<params, voxelSource, instances, initDataCalls, octants, isoValue,
                 activeVoxelRefs, kernel, kBounds,
                 sceneBounds>>

Next ==
  \/ SetIsoValue
  \/ SetOctantData
  \/ Commit
  \/ Finalize
  \/ ResolveBounds
  \/ ResolveVoxel

Spec == Init /\ [][Next]_vars

----------------------------------------------------------------------------
(* ImpiSGNode, the scene-graph node of the geometry in the viewer *)

\* vec3f(v): the vector with v in every component.
Vec3f(v) == <<v, v, v>>

\* A bounds() that reports the box of the first octant once data is loaded.
ImpiSGNode_boundsOfData ==
  IF octants = <<>> THEN Box3(Vec3f(0), Vec3f(10)) ELSE octants[1].bounds

\* ImpiSGNode::bounds(): box3f(vec3f(0), vec3f(1)), in tenths.
ImpiSGNode_bounds == Box3(Vec3f(0), Vec3f(10))

\* A caller asks the node for the extent of the geometry, in any state of
\* the geometry behind it.
QueryBounds ==
  /\ status = "ok"
  /\ sceneBounds' = Some(ImpiSGNode_bounds)
  /\ lastOp' = "bounds"
  /\ UNCHANGED <<params, voxelSource, instances, initDataCalls, octants, isoValue,
                 activeVoxelRefs, kernel, kBounds, kVoxel, status>>

\* The geometry as the scene graph drives it: parameters, commit, finalize
\* and the bounds query.
NextScene ==
  \/ SetIsoValue
  \/ SetOctantData
  \/ Commit
  \/ Finalize
  \/ QueryBounds

SpecScene == Init /\ [][NextScene]_vars

----------------------------------------------------------------------------
(* Properties *)

\* The source and its data, as a commit that is not the first must leave them.
SourceState == <<voxelSource, instances, initDataCalls, octants>>

\* C1: over any sequence of commits and finalizes the voxel source is
\* constructed once and initData runs once, both in the first commit: while
\* no commit has built a source nothing was constructed or initialized, and
\* from the first completed commit on there is exactly one instance, the
\* first one, initialized exactly once, whatever commits follow.
C1_SourceBuiltOnce ==
  /\ instances <= 1
  /\ initDataCalls <= 1
  /\ voxelSource = Null => (instances = 0 /\ initDataCalls = 0)
  /\ (voxelSource # Null /\ status = "ok") =>
       (voxelSource = 1 /\ instances = 1 /\ initDataCalls = 1)

\* A commit has completed on a geometry that was committed and finalized
\* before, with new octant arrays set in between.
C1_Witness ==
  /\ lastOp = "commit"
  /\ status = "ok"
  /\ kernel.built
  /\ octants # <<>>
  /\ params.octantWidthArray = Some(<<0>>)

\* The iso-value a commit must leave: the parameter when set, else 0.7.
ExpectedIso ==
  IF params.isoValue = Absent THEN DefaultIso ELSE ValueOf(params.isoValue)

\* C2: after every commit isoValue is the "isoValue" parameter when it is
\* set and the default 0.7 otherwise, and a commit that is not the first
\* changes nothing but isoValue: the source, its octants, activeVoxelRefs
\* and what the kernel holds stay as they were.
C2_CommitRefreshesIsoOnly ==
  /\ []((lastOp = "commit" /\ status = "ok") => isoValue = ExpectedIso)
  /\ [][(voxelSource # Null /\ lastOp' = "commit") =>
          UNCHANGED <<SourceState, activeVoxelRefs, kernel, kBounds, kVoxel,
                      params, status>>]_vars

\* A first commit has completed with the parameter set to a value other than
\* the one initVoxelSourceAndIsoValue assigns.
C2_Witness ==
  /\ lastOp = "commit"
  /\ status = "ok"
  /\ kernel.built
  /\ params.isoValue # Absent
  /\ isoValue # InitIso
  /\ isoValue # kernel.isoValue
  /\ params.octantWidthArray # Some(<<Len(octants)>> \o [i \in 1..Len(octants) |-> octants[i].width])

\* The corner values of octant i (1-based) straddle iso: some corner is at
\* most iso and some corner is at least iso.
Straddles(i, iso) ==
  /\ \E c \in 1..8 : octants[i].vertexValue[c] <= iso
  /\ \E c \in 1..8 : octants[i].vertexValue[c] >= iso

\* How often reference r occurs in list refs.
Occurrences(refs, r) == Cardinality({ k \in 1..Len(refs) : refs[k] = r })

\* refs holds exactly the octants active at iso, each once, and nothing else.
ExactlyActive(refs, iso) ==
  /\ \A k \in 1..Len(refs) : refs[k] \in 0..(Len(octants) - 1)
  /\ \A i \in 1..Len(octants) :
       Occurrences(refs, i - 1) = (IF Straddles(i, iso) THEN 1 ELSE 0)

\* C3: after every finalize the list handed to the kernel, pointer and
\* size, is the enumeration of the source at the current isoValue: every
\* active cell once, nothing left over from an earlier finalize; the kernel
\* keeps such a list, for the iso-value it was handed with, until the next
\* finalize.
C3_HandedListIsFresh ==
  /\ (kernel.built /\ status = "ok") =>
       /\ kernel.numVoxels = Len(kernel.voxelRefs)
       /\ ExactlyActive(kernel.voxelRefs, kernel.isoValue)
  /\ (lastOp = "finalize" /\ status = "ok") =>
       /\ kernel.built
       /\ kernel.isoValue = isoValue
       /\ kernel.voxelRefs = activeVoxelRefs

\* A finalize has handed over a non-empty list that lacks a reference the
\* kernel resolved from the list of an earlier finalize, at another
\* iso-value.
C3_Witness ==
  /\ lastOp = "finalize"
  /\ status = "ok"
  /\ kernel.voxelRefs # <<>>
  /\ \E r \in Refs :
       /\ kVoxel[r] # Absent
       /\ \A k \in 1..Len(kernel.voxelRefs) : kernel.voxelRefs[k] # r

\* The smallest and the largest corner value of octant i (1-based).
MinCorner(i) ==
  CHOOSE m \in { octants[i].vertexValue[c] : c \in 1..8 } :
    \A c \in 1..8 : m <= octants[i].vertexValue[c]
MaxCorner(i) ==
  CHOOSE m \in { octants[i].vertexValue[c] : c \in 1..8 } :
    \A c \in 1..8 : m >= octants[i].vertexValue[c]

\* C4: getActiveVoxels returns a reference for every octant with
\* min(corners) <= isoValue <= max(corners) and for no other octant, each
\* octant tested on its own in one pass over the sequence, so that the
\* references come out in the order of the octants.
C4_EnumerationIsExact ==
  (lastOp = "finalize" /\ voxelSource # Null /\ status = "ok") =>
     /\ \A i \in 1..Len(octants) :
          (\E k \in 1..Len(activeVoxelRefs) : activeVoxelRefs[k] = i - 1)
            <=> (MinCorner(i) <= isoValue /\ isoValue <= MaxCorner(i))
     /\ \A k \in 1..Len(activeVoxelRefs) : activeVoxelRefs[k] \in 0..(Len(octants) - 1)
     /\ \A k, l \in 1..Len(activeVoxelRefs) :
          k < l => activeVoxelRefs[k] < activeVoxelRefs[l]

\* An enumeration has kept one octant whose largest corner equals the
\* iso-value and dropped another.
C4_Witness ==
  /\ lastOp = "finalize"
  /\ status = "ok"
  /\ Len(octants) = 2
  /\ activeVoxelRefs = <<1>>
  /\ MaxCorner(2) = isoValue

\* The iso-value lies strictly above every corner value of the source, or
\* strictly below every one.
OutOfRange(iso) ==
  \/ \A i \in 1..Len(octants) : \A c \in 1..8 : octants[i].vertexValue[c] < iso
  \/ \A i \in 1..Len(octants) : \A c \in 1..8 : octants[i].vertexValue[c] > iso

\* C5: for an initialized source and an iso-value strictly above the
\* largest or strictly below the smallest corner value of all octants,
\* getActiveVoxels returns the empty sequence.
C5_EmptyOutsideRange ==
  (lastOp = "finalize" /\ voxelSource # Null /\ status \in {"ok", "abort"}
     /\ OutOfRange(isoValue))
    => activeVoxelRefs = <<>>

\* An enumeration below the smallest corner value of a source with octants
\* has emptied a list that an earlier finalize had filled.
C5_Witness ==
  /\ lastOp = "finalize"
  /\ voxelSource # Null
  /\ octants # <<>>
  /\ \A i \in 1..Len(octants) : \A c \in 1..8 : octants[i].vertexValue[c] > isoValue
  /\ activeVoxelRefs = <<>>
  /\ status = "ok"
  /\ kernel.numVoxels = 0
  /\ \E r \in Refs : kBounds[r] # Absent

\* C6: an iso-value outside the data's range is no error: finalize on a
\* committed geometry whose active-voxel list is empty completes normally
\* and hands the kernel a list of size 0.
C6_EmptyListCompletes ==
  (lastOp = "finalize" /\ voxelSource # Null /\ activeVoxelRefs = <<>>)
    => (status = "ok" /\ kernel.built /\ kernel.numVoxels = 0
          /\ kernel.isoValue = isoValue)


\* The ways an operation ends when a check in the code rejects its input: a
\* failed assertion or a reported fatal error.
ExplicitFailures == {"assertion", "fatal"}

\* C7: use before initialization fails fast: finalize and the resolver
\* callbacks entered while no source has been constructed and initialized
\* end in an explicit assertion or fatal error and hand nothing to the
\* kernel.
C7_UseBeforeInitFailsFast ==
  (voxelSource = Null /\ lastOp \in {"finalize", "getVoxelBounds", "getVoxel"})
    => (status \in ExplicitFailures /\ ~kernel.built)

\* C8: a first commit with one of the octant arrays absent ends in a fatal
\* initialization failure reported to the caller; it does not complete and
\* does not call initData.
C8_MissingArrayIsFatal ==
  [][(voxelSource = Null /\ lastOp' = "commit"
        /\ \E p \in OctantParams : params[p] = Absent)
       => (status' \in ExplicitFailures /\ initDataCalls' = 0)]_vars

\* C9: for every reference of the list handed over by finalize, the bounds
\* delivered through externC_getVoxelBounds equal the bounds inside the
\* voxel delivered through externC_getVoxel, as getVoxelBounds(ref) equals
\* the bounds of getVoxel(ref) for every enumerated reference.
C9_BoundsAgree ==
  status = "ok" =>
    /\ \A r \in Refs :
         (kBounds[r] # Absent /\ kVoxel[r] # Absent)
           => ValueOf(kBounds[r]) = ValueOf(kVoxel[r]).bounds
    /\ \A r \in Refs :
         (kBounds[r] # Absent /\ r < Len(octants))
           => ValueOf(kBounds[r]) = GetVoxel(octants, r).bounds

\* The kernel has resolved both the bounds and the voxel of the second of
\* two octants.
C9_Witness ==
  /\ status = "ok"
  /\ Len(octants) = 2
  /\ kBounds[1] # Absent
  /\ kVoxel[1] # Absent
  /\ kBounds[0] # Absent
  /\ ValueOf(kBounds[0]) # ValueOf(kBounds[1])

\* C10: once the source is initialized no enumeration, resolution, later
\* commit or finalize changes its octants, and resolving the voxel of a
\* reference again, whatever ran in between, delivers the same bounds and
\* the same 8 corner values.
C10_SourceIsReadOnly ==
  /\ [][(voxelSource # Null /\ status = "ok") => octants' = octants]_vars
  /\ [][\A r \in Refs :
          (kVoxel[r] # Absent /\ kVoxel'[r] # Absent) => kVoxel'[r] = kVoxel[r]]_vars

\* The voxel of a reference was resolved a second time, after a finalize at
\* another iso-value than the default and with the octant arrays replaced
\* since the first commit.
C10_Witness ==
  /\ lastOp = "getVoxel again"
  /\ status = "ok"
  /\ kernel.isoValue # DefaultIso
  /\ octants # <<>>
  /\ params.octantWidthArray = Some(<<0>>)

\* C11: every reference that reaches the resolver callbacks from a list
\* handed over by finalize is interpreted by the source instance that
\* produced it, after any commits and finalizes, and is a valid flat index
\* into the octants of that source: 0 <= index < number of octants.
C11_RefsStayWithTheirSource ==
  status = "ok" =>
    /\ kernel.built =>
         /\ kernel.producer = voxelSource
         /\ \A r \in KernelRefs : 0 <= r /\ r < Len(octants)
    /\ \A r \in Refs :
         (kBounds[r] # Absent \/ kVoxel[r] # Absent) => r < Len(octants)

\* The callbacks have resolved the last reference of a two-octant source from
\* the list of a finalize that followed a commit with replaced arrays.
C11_Witness ==
  /\ status = "ok"
  /\ lastOp = "getVoxelBounds"
  /\ Len(octants) = 2
  /\ 1 \in KernelRefs
  /\ kBounds[1] # Absent
  /\ kernel.isoValue = 5
  /\ params.octantWidthArray = Some(<<0>>)

\* Element i of an array, counted from 0 as the program does.
At0(array, i) == array[i + 1]

\* octs is what the three parameter arrays of ps describe: as many octants
\* as the first width element says, octant i with width element i+1, point
\* element i as its lower corner and value elements 8i..8i+7 as its corners.
LockStep(octs, ps) ==
  LET widths == ValueOf(ps.octantWidthArray)
      points == ValueOf(ps.octantPointArray)
      values == ValueOf(ps.octantValueArray)
  IN  /\ Len(octs) = At0(widths, 0)
      /\ \A i \in 0..(Len(octs) - 1) :
           /\ At0(octs, i).width = At0(widths, i + 1)
           /\ At0(octs, i).bounds.lower = At0(points, i)
           /\ \A c \in 0..7 : At0(At0(octs, i).vertexValue, c) = At0(values, 8 * i + c)

\* C12: the first commit initializes the octant source from the three
\* parallel arrays in lock-step: the count is the first width element, octant
\* i has width element i+1, point element i as lower corner and value
\* elements 8i..8i+7 as corner values, one Octant per entry.
C12_InitDataLockStep ==
  [][(voxelSource = Null /\ lastOp' = "commit" /\ status' = "ok")
       => LockStep(octants', params)]_vars

\* A first commit has built two octants of different widths, lower corners
\* and corner values from the arrays that are still set.
C12_Witness ==
  /\ lastOp = "commit"
  /\ status = "ok"
  /\ ~kernel.built
  /\ Len(octants) = 2
  /\ octants[1].width # octants[2].width
  /\ octants[1].bounds.lower # octants[2].bounds.lower
  /\ octants[1].vertexValue # octants[2].vertexValue
  /\ params.octantWidthArray = Some(<<2, octants[1].width, octants[2].width>>)

\* C13: the aggregate bounds reported for the geometry are the unit cube
\* [0,1]^3 whenever they are asked for: before the first commit, after a
\* commit and after a finalize, whatever the iso-value and the data loaded.
C13_BoundsAreUnitCube ==
  sceneBounds # Absent =>
    ValueOf(sceneBounds) = [lower |-> <<0, 0, 0>>, upper |-> <<10, 10, 10>>]

\* The bounds were asked for after a finalize at the iso-value 1.1 on a
\* source holding octants.
C13_Witness ==
  /\ lastOp = "bounds"
  /\ sceneBounds # Absent
  /\ kernel.built
  /\ kernel.isoValue = 11
  /\ octants # <<>>

====
